---------------------------- MODULE Spec2Model ----------------------------
(***************************************************************************)
(* A model of the signed-request trading client: the validators            *)
(* (src/bot/validators.py), the transport client (src/bot/client.py) and   *)
(* the order manager (src/bot/orders.py).                                  *)
(*                                                                         *)
(* Python values are records [t, s, n, e]: t is the type name, s the text  *)
(* of a str as a sequence of characters, n and e the coefficient and the   *)
(* decimal exponent of a number (value = n * 10^e, e <= 0).  Dictionaries  *)
(* are sequences of <<key, value>> pairs in insertion order.               *)
(***************************************************************************)
EXTENDS Integers, Sequences, FiniteSets, TLC

(***************************************************************************)
(* Bounds of the model.                                                    *)
(***************************************************************************)
\* the clock runs over 1 .. MaxClock milliseconds
MaxClock == 2
\* whole quantities and prices range over -1 .. MaxQty
MaxQty == 1
\* order identifiers range over 0 .. MaxOrderId
MaxOrderId == 1
\* callers sharing the one transport client are 1 .. MaxCallers
MaxCallers == 2
\* distinct signed requests of all callers together
MaxCalls == 2

(***************************************************************************)
(* Python values.                                                          *)
(***************************************************************************)
PyNone == [t |-> "NoneType", s |-> <<>>, n |-> 0, e |-> 0]
PyStr(chars) == [t |-> "str", s |-> chars, n |-> 0, e |-> 0]
PyInt(k) == [t |-> "int", s |-> <<>>, n |-> k, e |-> 0]
PyBool(b) == [t |-> "bool", s |-> <<>>, n |-> IF b THEN 1 ELSE 0, e |-> 0]
\* a finite float of value k * 10^x, kept normalised by the callers
PyFloat(k, x) == [t |-> "float", s |-> <<>>, n |-> k, e |-> x]
\* the special floats: s names them as str() prints them
PyNaN == [t |-> "float", s |-> <<"n", "a", "n">>, n |-> 0, e |-> 0]
PyInf == [t |-> "float", s |-> <<"i", "n", "f">>, n |-> 0, e |-> 0]
PyNegInf == [t |-> "float", s |-> <<"-", "i", "n", "f">>, n |-> 0, e |-> 0]

\* bool(v): Python truthiness
Truthy(v) ==
    CASE v.t = "NoneType" -> FALSE
      [] v.t = "str" -> v.s # <<>>
      [] v.t = "float" -> v.s # <<>> \/ v.n # 0
      [] OTHER -> v.n # 0

\* The(S) is the element of a one-element set.  The({e : x \in {v}}) is e
\* with x assigned the value of v, as a local variable is assigned once.
The(S) == CHOOSE r \in S : TRUE

\* outcomes of a call: a returned value or a raised exception
Return(v) == [kind |-> "return", value |-> v]
Raise(x) == [kind |-> "raise", exc |-> x]
\* an exception of class cls whose str() is text
Exc(cls, text) == [cls |-> cls, text |-> text]

(***************************************************************************)
(* str methods, character by character.                                    *)
(***************************************************************************)
LowerLetters ==
    <<"a", "b", "c", "d", "e", "f", "g", "h", "i", "j", "k", "l", "m",
      "n", "o", "p", "q", "r", "s", "t", "u", "v", "w", "x", "y", "z">>
UpperLetters ==
    <<"A", "B", "C", "D", "E", "F", "G", "H", "I", "J", "K", "L", "M",
      "N", "O", "P", "Q", "R", "S", "T", "U", "V", "W", "X", "Y", "Z">>

UpperChar(c) ==
    IF \E i \in DOMAIN LowerLetters : LowerLetters[i] = c
    THEN UpperLetters[CHOOSE i \in DOMAIN LowerLetters : LowerLetters[i] = c]
    ELSE c

LowerChar(c) ==
    IF \E i \in DOMAIN UpperLetters : UpperLetters[i] = c
    THEN LowerLetters[CHOOSE i \in DOMAIN UpperLetters : UpperLetters[i] = c]
    ELSE c

\* str.upper()
Upper(chars) == [i \in DOMAIN chars |-> UpperChar(chars[i])]
\* str.lower()
Lower(chars) == [i \in DOMAIN chars |-> LowerChar(chars[i])]

Whitespace == {" ", "\t", "\n"}

RECURSIVE LStrip(_)
LStrip(chars) ==
    IF chars # <<>> /\ Head(chars) \in Whitespace THEN LStrip(Tail(chars)) ELSE chars

RECURSIVE RStrip(_)
RStrip(chars) ==
    IF chars # <<>> /\ chars[Len(chars)] \in Whitespace
    THEN RStrip(SubSeq(chars, 1, Len(chars) - 1))
    ELSE chars

\* str.strip()
Strip(chars) == RStrip(LStrip(chars))

\* str.endswith(suffix)
EndsWith(chars, suffix) ==
    /\ Len(chars) >= Len(suffix)
    /\ SubSeq(chars, Len(chars) - Len(suffix) + 1, Len(chars)) = suffix

\* the decimal digits of a natural number, as str() prints them
RECURSIVE Digits(_)
Digits(k) ==
    IF k < 10 THEN <<ToString(k)>> ELSE Digits(k \div 10) \o <<ToString(k % 10)>>

RECURSIVE Zeros(_)
Zeros(k) == IF k <= 0 THEN <<>> ELSE <<"0">> \o Zeros(k - 1)

\* the digits of k * 10^x, x <= 0, with a decimal point and at least one
\* digit on each side of it
FixedPoint(k, x) ==
    LET d == Digits(k)
        padded == IF Len(d) <= -x THEN Zeros(1 - x - Len(d)) \o d ELSE d
        cut == Len(padded) + x
    IN SubSeq(padded, 1, cut) \o <<".">> \o
       (IF x = 0 THEN <<"0">> ELSE SubSeq(padded, cut + 1, Len(padded)))

\* str(v)
Str(v) ==
    CASE v.t = "str" -> v.s
      [] v.t = "NoneType" -> <<"N", "o", "n", "e">>
      [] v.t = "bool" -> IF v.n = 1 THEN <<"T", "r", "u", "e">>
                                    ELSE <<"F", "a", "l", "s", "e">>
      [] v.t = "int" -> IF v.n < 0 THEN <<"-">> \o Digits(-v.n) ELSE Digits(v.n)
      [] v.t = "float" ->
            IF v.s # <<>> THEN v.s
            ELSE IF v.n < 0 THEN <<"-">> \o FixedPoint(-v.n, v.e)
            ELSE FixedPoint(v.n, v.e)
      [] OTHER -> <<"?">>


(***************************************************************************)
(* decimal.Decimal: construction from text, comparison with 0, float().    *)
(* A Decimal is [kind, sign, coef, exp] of value sign * coef * 10^exp.     *)
(* The text forms modelled are [sign] digits [. digits], nan, snan, inf    *)
(* and infinity, with surrounding whitespace; exponent notation and digit  *)
(* separators are outside the alphabet of the inputs.                      *)
(***************************************************************************)
DigitChars == {"0", "1", "2", "3", "4", "5", "6", "7", "8", "9"}
DigitVal(c) == CHOOSE d \in 0..9 : ToString(d) = c

RECURSIVE NatOf(_)
NatOf(digs) ==
    IF digs = <<>> THEN 0
    ELSE 10 * NatOf(SubSeq(digs, 1, Len(digs) - 1)) + DigitVal(digs[Len(digs)])

AllDigits(chars) == \A i \in DOMAIN chars : chars[i] \in DigitChars

DecFinite(sg, c, x) == [kind |-> "finite", sign |-> sg, coef |-> c, exp |-> x]
DecNaN == [kind |-> "NaN", sign |-> 1, coef |-> 0, exp |-> 0]
DecInf(sg) == [kind |-> "Infinity", sign |-> sg, coef |-> 0, exp |-> 0]
\* the conversion failed: decimal.InvalidOperation (ConversionSyntax)
DecInvalid == [kind |-> "InvalidOperation", sign |-> 1, coef |-> 0, exp |-> 0]

\* the digits of body around its decimal point, body having no sign
DecimalOfDigits(sg, body, dots) ==
    LET dot == IF dots = {} THEN Len(body) + 1 ELSE CHOOSE i \in dots : TRUE
        ip == SubSeq(body, 1, dot - 1)
        fp == SubSeq(body, dot + 1, Len(body))
    IN IF /\ Cardinality(dots) <= 1
          /\ Len(ip) + Len(fp) >= 1
          /\ AllDigits(ip) /\ AllDigits(fp)
       THEN The({DecFinite(sg, NatOf(digs), -Len(fp)) : digs \in {ip \o fp}})
       ELSE DecInvalid

DecimalOfBody(sg, body, low) ==
    CASE low \in {<<"n", "a", "n">>, <<"s", "n", "a", "n">>} -> DecNaN
      [] low \in {<<"i", "n", "f">>,
                  <<"i", "n", "f", "i", "n", "i", "t", "y">>} -> DecInf(sg)
      [] OTHER -> DecimalOfDigits(sg, body, {i \in DOMAIN body : body[i] = "."})

DecimalOfStripped(stripped) ==
    LET signed == stripped # <<>> /\ Head(stripped) \in {"+", "-"}
        sg == IF signed /\ Head(stripped) = "-" THEN -1 ELSE 1
    IN The({DecimalOfBody(sg, body, Lower(body)) :
               body \in {IF signed THEN Tail(stripped) ELSE stripped}})

\* Decimal(text)
DecimalOf(chars) == The({DecimalOfStripped(stripped) : stripped \in {Strip(chars)}})

\* float(d) of a positive Decimal: the value, trailing zeros of the fraction
\* dropped (5.0 and 5.00 are one float).  Rounding to binary is not modelled.
RECURSIVE NormFloat(_, _)
NormFloat(c, x) ==
    IF x < 0 /\ c % 10 = 0 THEN NormFloat(c \div 10, x + 1) ELSE PyFloat(c, x)

FloatOf(d) ==
    IF d.kind = "Infinity" THEN (IF d.sign = 1 THEN PyInf ELSE PyNegInf)
    ELSE NormFloat(d.sign * d.coef, d.exp)

(***************************************************************************)
(* src/bot/validators.py                                                   *)
(***************************************************************************)
USDT == <<"U", "S", "D", "T">>
BUY == <<"B", "U", "Y">>
SELL == <<"S", "E", "L", "L">>
MARKET == <<"M", "A", "R", "K", "E", "T">>
LIMIT == <<"L", "I", "M", "I", "T">>
VALID_SIDES == {BUY, SELL}
VALID_ORDER_TYPES == {MARKET, LIMIT}

ValidationError(msg) == Raise(Exc("ValidationError", msg))
\* symbol.upper() on a value that is no str
NoUpper(v) == Raise(Exc("AttributeError", <<"'">> \o <<v.t>> \o <<"' object has no attribute 'upper'">>))
\* the comparison qty <= 0 of a NaN signals decimal.InvalidOperation
NaNCompare == Raise(Exc("InvalidOperation", <<"[<class 'decimal.InvalidOperation'>]">>))

\* validate_symbol upper-casing the symbol and leaving its whitespace
validate_symbol_UpperOnly(symbol) ==
    IF ~Truthy(symbol) THEN ValidationError(<<"Symbol is required">>)
    ELSE IF symbol.t # "str" THEN NoUpper(symbol)
    ELSE The({IF ~EndsWith(sym, USDT)
              THEN ValidationError(<<"Invalid symbol format: ">> \o sym
                                   \o <<". Must end with USDT">>)
              ELSE Return(PyStr(sym)) :
                 sym \in {Upper(symbol.s)}})

validate_symbol(symbol) ==
    IF ~Truthy(symbol) THEN ValidationError(<<"Symbol is required">>)
    ELSE IF symbol.t # "str" THEN NoUpper(symbol)
    ELSE The({IF ~EndsWith(sym, USDT)
              THEN ValidationError(<<"Invalid symbol format: ">> \o sym
                                   \o <<". Must end with USDT">>)
              ELSE Return(PyStr(sym)) :
                 sym \in {Strip(Upper(symbol.s))}})

validate_side(side) ==
    IF ~Truthy(side) THEN ValidationError(<<"Side is required">>)
    ELSE IF side.t # "str" THEN NoUpper(side)
    ELSE The({IF sd \notin VALID_SIDES
              THEN ValidationError(<<"Invalid side: ">> \o sd
                                   \o <<". Must be BUY or SELL">>)
              ELSE Return(PyStr(sd)) :
                 sd \in {Strip(Upper(side.s))}})

validate_order_type(order_type) ==
    IF ~Truthy(order_type) THEN ValidationError(<<"Order type is required">>)
    ELSE IF order_type.t # "str" THEN NoUpper(order_type)
    ELSE The({IF ot \notin VALID_ORDER_TYPES
              THEN ValidationError(<<"Invalid order type: ">> \o ot
                                   \o <<". Must be MARKET or LIMIT">>)
              ELSE Return(PyStr(ot)) :
                 ot \in {Strip(Upper(order_type.s))}})

\* qty <= 0 for a Decimal that is not a NaN
DecLeqZero(d) ==
    IF d.kind = "Infinity" THEN d.sign = -1 ELSE d.sign * d.coef <= 0

validate_quantity(quantity) ==
    IF quantity.t = "NoneType" THEN ValidationError(<<"Quantity is required">>)
    ELSE The({IF qty.kind = "InvalidOperation"
              THEN ValidationError(<<"Invalid quantity: ">> \o Str(quantity))
              ELSE IF qty.kind = "NaN" THEN NaNCompare
              ELSE IF DecLeqZero(qty)
              THEN ValidationError(<<"Quantity must be greater than 0">>)
              ELSE Return(FloatOf(qty)) :
                 qty \in {DecimalOf(Str(quantity))}})

\* validate_price handing back the price of an order that is no LIMIT order
validate_price_KeepsPrice(price, order_type) ==
    IF order_type = PyStr(LIMIT)
    THEN IF price.t = "NoneType"
         THEN ValidationError(<<"Price is required for LIMIT orders">>)
         ELSE The({IF p.kind = "InvalidOperation"
                   THEN ValidationError(<<"Invalid price: ">> \o Str(price))
                   ELSE IF p.kind = "NaN" THEN NaNCompare
                   ELSE IF DecLeqZero(p)
                   THEN ValidationError(<<"Price must be greater than 0">>)
                   ELSE Return(FloatOf(p)) :
                      p \in {DecimalOf(Str(price))}})
    ELSE Return(price)

validate_price(price, order_type) ==
    IF order_type = PyStr(LIMIT)
    THEN IF price.t = "NoneType"
         THEN ValidationError(<<"Price is required for LIMIT orders">>)
         ELSE The({IF p.kind = "InvalidOperation"
                   THEN ValidationError(<<"Invalid price: ">> \o Str(price))
                   ELSE IF p.kind = "NaN" THEN NaNCompare
                   ELSE IF DecLeqZero(p)
                   THEN ValidationError(<<"Price must be greater than 0">>)
                   ELSE Return(FloatOf(p)) :
                      p \in {DecimalOf(Str(price))}})
    ELSE Return(PyNone)

\* the record validate_order_params returns, price validated last
ValidatedRecord(vs, vd, vt, vq, vp) ==
    IF vp.kind = "raise" THEN vp
    ELSE Return([symbol |-> vs.value, side |-> vd.value, order_type |-> vt.value,
                 quantity |-> vq.value, price |-> vp.value])

\* validate_order_params validating the quantity before the other fields
validate_order_params_QuantityFirst(symbol, side, order_type, quantity, price) ==
    The({IF vq.kind = "raise" THEN vq
         ELSE The({IF vs.kind = "raise" THEN vs
         ELSE The({IF vd.kind = "raise" THEN vd
         ELSE The({IF vt.kind = "raise" THEN vt
         ELSE The({ValidatedRecord(vs, vd, vt, vq, vp) :
                      vp \in {validate_price(price, vt.value)}}) :
                 vt \in {validate_order_type(order_type)}}) :
              vd \in {validate_side(side)}}) :
           vs \in {validate_symbol(symbol)}}) :
        vq \in {validate_quantity(quantity)}})

\* the dict literal evaluates its values in order; the first exception raised
\* leaves the function
validate_order_params(symbol, side, order_type, quantity, price) ==
    The({IF vs.kind = "raise" THEN vs
         ELSE The({IF vd.kind = "raise" THEN vd
         ELSE The({IF vt.kind = "raise" THEN vt
         ELSE The({IF vq.kind = "raise" THEN vq
         ELSE The({ValidatedRecord(vs, vd, vt, vq, vp) :
                      vp \in {validate_price(price, vt.value)}}) :
                 vq \in {validate_quantity(quantity)}}) :
              vt \in {validate_order_type(order_type)}}) :
           vd \in {validate_side(side)}}) :
        vs \in {validate_symbol(symbol)}})

(***************************************************************************)
(* dict: a sequence of <<key, value>> pairs in insertion order.            *)
(***************************************************************************)
DictHas(d, k) == \E i \in DOMAIN d : d[i][1] = k
DictIndex(d, k) == CHOOSE i \in DOMAIN d : d[i][1] = k
\* d.get(k, default)
DictGet(d, k, default) == IF DictHas(d, k) THEN d[DictIndex(d, k)][2] ELSE default
\* d[k] = v: an existing key keeps its place, a new key goes last
DictSet(d, k, v) ==
    IF DictHas(d, k) THEN [d EXCEPT ![DictIndex(d, k)] = <<k, v>>]
    ELSE Append(d, <<k, v>>)
DictKeys(d) == [i \in DOMAIN d |-> d[i][1]]

(***************************************************************************)
(* JSON bodies as response.json() returns them: a dict for an object, and  *)
(* a list, str, number or None for the other JSON types.                   *)
(***************************************************************************)
JObject(d) == [jt |-> "dict", val |-> d]
JOther(pytype) == [jt |-> pytype, val |-> <<>>]

(***************************************************************************)
(* src/bot/client.py                                                       *)
(***************************************************************************)
\* class BinanceAPIError: status_code, error_code, message; str() of it is
\* "API Error {error_code}: {message}"
BinanceAPIError(status_code, error_code, message) ==
    [cls |-> "BinanceAPIError",
     text |-> <<"API Error ">> \o Str(error_code) \o <<": ">> \o Str(message),
     status_code |-> status_code, error_code |-> error_code, message |-> message]

\* BinanceClient.__init__: the object after a construction that did not raise
BinanceClient(api_key, api_secret) ==
    [api_key |-> api_key, api_secret |-> api_secret,
     headers |-> << <<"X-MBX-APIKEY", PyStr(api_key)>>,
                    <<"Content-Type", PyStr(<<"application/x-www-form-urlencoded">>)>> >>]

BASE_URL == <<"https://testnet.binancefuture.com">>
\* timeout=30 of every session call
REQUEST_TIMEOUT == 30

\* quote_plus of urlencode on the characters of the inputs: a space becomes
\* "+", letters, digits, "." and "-" stay
QuotePlus(chars) == [i \in DOMAIN chars |-> IF chars[i] = " " THEN "+" ELSE chars[i]]

\* urllib.parse.urlencode(params): the items k=v in the dict's order, which
\* the query string joins by "&"
urlencode(params) ==
    [i \in DOMAIN params |-> <<params[i][1], "=">> \o QuotePlus(Str(params[i][2]))]

\* hmac.new(secret, message, sha256).hexdigest(), kept symbolic: the digest is
\* a str that names its key and its message, so equal digests mean equal keys
\* and equal messages
HmacSha256Hex(secret, message) ==
    [t |-> "str", s |-> <<"hexdigest">>, n |-> 0, e |-> 0,
     key |-> secret, msg |-> message]

_generate_signature(api_secret, params) ==
    HmacSha256Hex(api_secret, urlencode(params))

MASK == PyStr(<<"*", "*", "*">>)

\* _sanitize_params masking the value of every parameter
_sanitize_params_MaskAll(params) ==
    [i \in DOMAIN params |-> <<params[i][1], MASK>>]

_sanitize_params(params) ==
    IF DictHas(params, "signature") THEN DictSet(params, "signature", MASK)
    ELSE params

\* the classes of requests.exceptions the session can raise, and which of the
\* three handlers' classes each is an instance of
TransportErrors == {"ReadTimeout", "ConnectTimeout", "ConnectionError", "TooManyRedirects"}
\* IsTimeout with a connect timeout counted as no timeout
IsTimeout_ReadOnly(cls) == cls \in {"ReadTimeout"}
IsTimeout(cls) == cls \in {"ReadTimeout", "ConnectTimeout"}
IsConnectionError(cls) == cls \in {"ConnectionError", "ConnectTimeout"}

\* what the outside gives one HTTP request: a transport exception, or a
\* response with a status and a body that parses as JSON or does not
NoNet == [net |-> "none", status |-> 0, parses |-> FALSE, body |-> JOther("NoneType"),
          cls |-> "", text |-> <<>>]
NetResponse(status, body) ==
    [net |-> "response", status |-> status, parses |-> TRUE, body |-> body,
     cls |-> "", text |-> <<>>]
NetBadJson(status) ==
    [net |-> "response", status |-> status, parses |-> FALSE, body |-> JOther("NoneType"),
     cls |-> "", text |-> <<>>]
NetError(cls, text) ==
    [net |-> "exception", status |-> 0, parses |-> FALSE, body |-> JOther("NoneType"),
     cls |-> cls, text |-> text]

\* the request handed to session.get / .post / .delete
HttpRequest(method, endpoint, params, carrier, signed, headers) ==
    [method |-> method, url |-> BASE_URL \o endpoint, params |-> params,
     carrier |-> carrier, timeout |-> REQUEST_TIMEOUT, signed |-> signed,
     headers |-> headers]

\* HandleExchange looking at the status before it parses the body
HandleExchange_StatusFirst(net) ==
    IF net.net = "exception"
    THEN IF IsTimeout(net.cls)
         THEN Raise(BinanceAPIError(0, PyStr(<<"TIMEOUT">>), PyStr(<<"Request timed out">>)))
         ELSE IF IsConnectionError(net.cls)
         THEN Raise(BinanceAPIError(0, PyStr(<<"CONNECTION_ERROR">>), PyStr(net.text)))
         ELSE Raise(BinanceAPIError(0, PyStr(<<"REQUEST_ERROR">>), PyStr(net.text)))
    ELSE IF net.status # 200
    THEN IF net.parses /\ net.body.jt # "dict"
         THEN Raise(Exc("AttributeError",
                        <<"'">> \o <<net.body.jt>> \o <<"' object has no attribute 'get'">>))
         ELSE Raise(BinanceAPIError(net.status,
                        DictGet(net.body.val, "code", PyStr(<<"UNKNOWN">>)),
                        DictGet(net.body.val, "msg", PyStr(<<"Unknown error">>))))
    ELSE IF ~net.parses
    THEN Raise(BinanceAPIError(net.status, PyStr(<<"INVALID_JSON">>),
                               PyStr(<<"Invalid JSON response from server">>)))
    ELSE Return(net.body)

\* the try block of _make_request once the request is out: lines 89-114
HandleExchange(net) ==
    IF net.net = "exception"
    THEN IF IsTimeout(net.cls)
         THEN Raise(BinanceAPIError(0, PyStr(<<"TIMEOUT">>), PyStr(<<"Request timed out">>)))
         ELSE IF IsConnectionError(net.cls)
         THEN Raise(BinanceAPIError(0, PyStr(<<"CONNECTION_ERROR">>), PyStr(net.text)))
         ELSE Raise(BinanceAPIError(0, PyStr(<<"REQUEST_ERROR">>), PyStr(net.text)))
    ELSE IF ~net.parses
    THEN Raise(BinanceAPIError(net.status, PyStr(<<"INVALID_JSON">>),
                               PyStr(<<"Invalid JSON response from server">>)))
    ELSE IF net.status # 200
    THEN IF net.body.jt # "dict"
         THEN Raise(Exc("AttributeError",
                        <<"'">> \o <<net.body.jt>> \o <<"' object has no attribute 'get'">>))
         ELSE Raise(BinanceAPIError(net.status,
                        DictGet(net.body.val, "code", PyStr(<<"UNKNOWN">>)),
                        DictGet(net.body.val, "msg", PyStr(<<"Unknown error">>))))
    ELSE Return(net.body)

\* _get_timestamp handing out the time read when the client was constructed
_get_timestamp_AtConstruction(now) == PyInt(1)

\* _get_timestamp: int(time.time() * 1000), now being the clock in ms
_get_timestamp(now) == PyInt(now)

\* SignParams with the signature computed before the timestamp is put in
SignParams_Unstamped(self, params, now) ==
    DictSet(DictSet(params, "timestamp", _get_timestamp(now)), "signature",
            _generate_signature(self.api_secret, params))

\* params with timestamp and signature put in: lines 72-74
SignParams(self, params, now) ==
    The({DictSet(stamped, "signature", _generate_signature(self.api_secret, stamped)) :
            stamped \in {DictSet(params, "timestamp", _get_timestamp(now))}})

\* Dispatch sending the request a second time when the first attempt failed
Dispatch_Retrying(self, method, endpoint, final, signed, net) ==
    The({[out |-> HandleExchange(net),
          sent |-> IF HandleExchange(net).kind = "raise" THEN <<req, req>> ELSE <<req>>,
          logged |-> <<_sanitize_params(final)>>] :
            req \in {HttpRequest(method, endpoint, final,
                                 IF method = "POST" THEN "data" ELSE "params",
                                 signed, self.headers)}})

\* the session call and what follows it, final being the parameters as sent
Dispatch(self, method, endpoint, final, signed, net) ==
    IF method \notin {"GET", "POST", "DELETE"}
    THEN [out |-> Raise(Exc("ValueError", <<"Unsupported HTTP method: ", method>>)),
          sent |-> <<>>, logged |-> <<_sanitize_params(final)>>]
    ELSE [out |-> HandleExchange(net),
          sent |-> <<HttpRequest(method, endpoint, final,
                                 IF method = "POST" THEN "data" ELSE "params",
                                 signed, self.headers)>>,
          logged |-> <<_sanitize_params(final)>>]

\* _make_request: the outcome, the requests issued and the parameter sets
\* logged.  now is the clock read by _get_timestamp, net what the outside
\* answers to the request
_make_request(self, method, endpoint, params, signed, now, net) ==
    The({Dispatch(self, method, endpoint, final, signed, net) :
            final \in {IF signed THEN SignParams(self, params, now) ELSE params}})

GTC == <<"G", "T", "C">>
IOC == <<"I", "O", "C">>

get_server_time(self, now, net) ==
    _make_request(self, "GET", <<"/fapi/v1/time">>, <<>>, FALSE, now, net)

get_exchange_info(self, now, net) ==
    _make_request(self, "GET", <<"/fapi/v1/exchangeInfo">>, <<>>, FALSE, now, net)

get_account_info(self, now, net) ==
    _make_request(self, "GET", <<"/fapi/v2/account">>, <<>>, TRUE, now, net)

get_symbol_price(self, symbol, now, net) ==
    _make_request(self, "GET", <<"/fapi/v1/ticker/price">>,
                  <<<<"symbol", symbol>>>>, FALSE, now, net)

\* the parameter map of BinanceClient.place_order: lines 157-171
\* WithPrice sending the price of any order that is given one
WithPrice_AnyOrderType(params, order_type, price, time_in_force) ==
    IF order_type = PyStr(LIMIT) \/ price.t # "NoneType"
    THEN DictSet(DictSet(params, "price", price), "timeInForce",
                 IF Truthy(time_in_force) THEN time_in_force ELSE PyStr(GTC))
    ELSE params

WithPrice(params, order_type, price, time_in_force) ==
    IF order_type = PyStr(LIMIT)
    THEN The({DictSet(priced, "timeInForce",
                      IF Truthy(time_in_force) THEN time_in_force ELSE PyStr(GTC)) :
                 priced \in {DictSet(params, "price", price)}})
    ELSE params

WithReduceOnly(params, reduce_only) ==
    IF Truthy(reduce_only)
    THEN DictSet(params, "reduceOnly", PyStr(<<"t", "r", "u", "e">>))
    ELSE params

OrderParams(symbol, side, order_type, quantity, price, time_in_force, reduce_only) ==
    The({WithReduceOnly(priced, reduce_only) :
            priced \in {WithPrice(<< <<"symbol", symbol>>, <<"side", side>>,
                                     <<"type", order_type>>, <<"quantity", quantity>> >>,
                                  order_type, price, time_in_force)}})

client_place_order(self, symbol, side, order_type, quantity, price, time_in_force, reduce_only, now, net) ==
    IF order_type = PyStr(LIMIT) /\ price.t = "NoneType"
    THEN [out |-> Raise(Exc("ValueError", <<"Price required for LIMIT orders">>)),
          sent |-> <<>>, logged |-> <<>>]
    ELSE _make_request(self, "POST", <<"/fapi/v1/order">>,
                       OrderParams(symbol, side, order_type, quantity, price,
                                   time_in_force, reduce_only),
                       TRUE, now, net)

client_cancel_order(self, symbol, order_id, now, net) ==
    _make_request(self, "DELETE", <<"/fapi/v1/order">>,
                  << <<"symbol", symbol>>, <<"orderId", order_id>> >>, TRUE, now, net)

client_get_open_orders(self, symbol, now, net) ==
    _make_request(self, "GET", <<"/fapi/v1/openOrders">>,
                  IF Truthy(symbol) THEN <<<<"symbol", symbol>>>> ELSE <<>>,
                  TRUE, now, net)

\* test_connectivity: True when get_server_time returns, False on any exception
test_connectivity(self, now, net) ==
    The({[r EXCEPT !.out = Return(PyBool(r.out.kind = "return"))] :
            r \in {get_server_time(self, now, net)}})

(***************************************************************************)
(* src/bot/orders.py                                                       *)
(***************************************************************************)
\* response.get(key): None when the key is absent
Field(response, key) == DictGet(response.val, key, PyNone)

\* _format_order_response; response.get raises AttributeError when the
\* response is no dict
_format_order_response(response) ==
    IF response.jt # "dict"
    THEN Raise(Exc("AttributeError",
                   <<"'">> \o <<response.jt>> \o <<"' object has no attribute 'get'">>))
    ELSE Return([order_id |-> Field(response, "orderId"),
                 symbol |-> Field(response, "symbol"),
                 side |-> Field(response, "side"),
                 type |-> Field(response, "type"),
                 status |-> Field(response, "status"),
                 quantity |-> Field(response, "origQty"),
                 executed_qty |-> Field(response, "executedQty"),
                 price |-> Field(response, "price"),
                 avg_price |-> Field(response, "avgPrice"),
                 time_in_force |-> Field(response, "timeInForce"),
                 reduce_only |-> Field(response, "reduceOnly"),
                 timestamp |-> Field(response, "updateTime"),
                 raw_response |-> response])

ValidationFailure(x) ==
    [success |-> FALSE, error |-> PyStr(x.text), error_type |-> "VALIDATION_ERROR"]

\* ApiFailure reporting str(e) and no error code
ApiFailure_StrOnly(x) ==
    [success |-> FALSE, error |-> PyStr(x.text), error_type |-> "API_ERROR"]

ApiFailure(x) ==
    [success |-> FALSE, error |-> x.message, error_code |-> x.error_code,
     error_type |-> "API_ERROR"]
UnknownFailure(x) ==
    [success |-> FALSE, error |-> PyStr(x.text), error_type |-> "UNKNOWN_ERROR"]

\* the handlers of the second try block of OrderManager.place_order
Handled(x) ==
    IF x.cls = "BinanceAPIError" THEN Return(ApiFailure(x)) ELSE Return(UnknownFailure(x))

\* the body of that try block once the transport client has returned
\* response: the formatted result with result['success'] = True
Formatted(response) ==
    The({IF result.kind = "return" THEN Return(result.value @@ [success |-> TRUE])
         ELSE Handled(result.exc) :
            result \in {_format_order_response(response)}})

\* PlaceValidated asking the transport client for a reduce-only order
PlaceValidated_ReduceOnly(self, validated, now, net) ==
    The({[r EXCEPT !.out = IF r.out.kind = "return" THEN Formatted(r.out.value)
                           ELSE Handled(r.out.exc)] :
            r \in {client_place_order(self, validated.symbol, validated.side,
                                      validated.order_type, validated.quantity,
                                      validated.price, PyNone, PyBool(TRUE), now, net)}})

\* the second try block of OrderManager.place_order: lines 49-79
PlaceValidated(self, validated, now, net) ==
    The({[r EXCEPT !.out = IF r.out.kind = "return" THEN Formatted(r.out.value)
                           ELSE Handled(r.out.exc)] :
            r \in {client_place_order(self, validated.symbol, validated.side,
                                      validated.order_type, validated.quantity,
                                      validated.price, PyNone, PyBool(FALSE), now, net)}})

\* OrderManager.place_order
om_place_order(self, symbol, side, order_type, quantity, price, now, net) ==
    The({IF validated.kind = "raise"
         THEN [out |-> IF validated.exc.cls = "ValidationError"
                       THEN Return(ValidationFailure(validated.exc))
                       ELSE validated,
               sent |-> <<>>, logged |-> <<>>]
         ELSE PlaceValidated(self, validated.value, now, net) :
            validated \in {validate_order_params(symbol, side, order_type, quantity, price)}})

\* {'success': True, 'response': response} or {'success': False, 'error': ...}
om_cancel_order(self, symbol, order_id, now, net) ==
    The({[r EXCEPT !.out =
             IF r.out.kind = "return"
             THEN Return([success |-> TRUE, response |-> r.out.value])
             ELSE IF r.out.exc.cls = "BinanceAPIError"
             THEN Return([success |-> FALSE, error |-> r.out.exc.message])
             ELSE r.out] :
            r \in {client_cancel_order(self, symbol, order_id, now, net)}})

\* {'success': True, 'orders': orders} or {'success': False, 'error': ...}
om_get_open_orders(self, symbol, now, net) ==
    The({[r EXCEPT !.out =
             IF r.out.kind = "return"
             THEN Return([success |-> TRUE, orders |-> r.out.value])
             ELSE IF r.out.exc.cls = "BinanceAPIError"
             THEN Return([success |-> FALSE, error |-> r.out.exc.message])
             ELSE r.out] :
            r \in {client_get_open_orders(self, symbol, now, net)}})

(***************************************************************************)
(* The inputs of the model.                                                *)
(***************************************************************************)
BTCUSDT == <<"B", "T", "C", "U", "S", "D", "T">>

\* key and secret pairs the client is constructed with, both not empty
Credentials == {<<<<"key-1">>, <<"secret-1">>>>}

\* whole numbers as int
Whole == {PyInt(k) : k \in -1..MaxQty}

SymbolInputs ==
    {PyStr(<<" ", "b", "t", "c", "u", "s", "d", "t", " ">>),
     PyStr(<<"b", "t", "c", "u", "s", "d">>), PyNone, PyInt(7)}
\* symbols as validate_symbol alone is handed them: "", " btcusdt ", "btcusd",
\* "ETHUSDT", "usdt", "BtcUsdt\n", "\t ethUSDT", "usdt x", None and 7
SymbolTexts ==
    {PyStr(<<>>),
     PyStr(<<" ", "b", "t", "c", "u", "s", "d", "t", " ">>),
     PyStr(<<"b", "t", "c", "u", "s", "d">>),
     PyStr(<<"E", "T", "H", "U", "S", "D", "T">>),
     PyStr(<<"u", "s", "d", "t">>),
     PyStr(<<"B", "t", "c", "U", "s", "d", "t", "\n">>),
     PyStr(<<"\t", " ", "e", "t", "h", "U", "S", "D", "T">>),
     PyStr(<<"u", "s", "d", "t", " ", "x">>),
     PyNone, PyInt(7)}
SideInputs ==
    {PyStr(<<"b", "u", "y">>), PyStr(<<"S", "E", "L", "L", " ">>),
     PyStr(<<"h", "o", "l", "d">>), PyInt(1)}
OrderTypeInputs ==
    {PyStr(<<"m", "a", "r", "k", "e", "t">>), PyStr(<<" ", "l", "i", "m", "i", "t">>),
     PyStr(<<"S", "T", "O", "P">>), PyNone, PyInt(1)}
\* 0.001, nan and inf as float; "abc", " 2.50" and "NaN" as str
QuantityInputs ==
    Whole \cup {PyFloat(1, -3), PyNaN, PyInf, PyNone, PyStr(<<"a", "b", "c">>),
                PyStr(<<" ", "2", ".", "5", "0">>), PyStr(<<"N", "a", "N">>)}
PriceInputs ==
    {PyInt(k) : k \in 0..MaxQty} \cup {PyFloat(5, -1), PyNaN, PyNone, PyStr(<<"a", "b", "c">>)}

\* order types as the transport client and validate_price are handed them
ClientOrderTypes ==
    {PyStr(MARKET), PyStr(LIMIT), PyStr(<<"l", "i", "m", "i", "t">>),
     PyStr(<<"S", "T", "O", "P">>)}
OrderIds == {PyInt(k) : k \in 0..MaxOrderId}

Statuses == {200, 400}
Bodies ==
    {JObject(<< <<"orderId", PyInt(7)>>, <<"symbol", PyStr(BTCUSDT)>>,
                <<"status", PyStr(<<"NEW">>)>>, <<"price", PyStr(<<"0">>)>> >>),
     JObject(<< <<"orderId", PyInt(8)>>, <<"clientTag", PyStr(<<"x">>)>> >>),
     JObject(<< <<"code", PyInt(-1111)>>,
                <<"msg", PyStr(<<"Precision is over the maximum">>)>> >>),
     JObject(<<>>),
     JOther("list"), JOther("str"), JOther("int"), JOther("NoneType")}
NetOutcomes ==
    {NetResponse(st, b) : st \in Statuses, b \in Bodies}
    \cup {NetBadJson(st) : st \in Statuses}
    \cup {NetError(c, <<"transport failure">>) : c \in TransportErrors}

(***************************************************************************)
(* The state: the client object, the clock, and the last operation called  *)
(* with its inputs, what the outside answered, its outcome, the requests   *)
(* it issued and the parameter sets it logged.                             *)
(***************************************************************************)
VARIABLES self, clock, op, args, validated, net, outcome, wire, logged, pending, transmitted

vars == <<self, clock, op, args, validated, net, outcome, wire, logged, pending, transmitted>>

\* the callers that share the client, each a thread of its own
Callers == 1..MaxCallers

\* a caller that is in no call
NoCall == [name |-> "none", method |-> "", endpoint |-> <<>>, params |-> <<>>]
IdleCaller ==
    [pc |-> "idle", call |-> NoCall, params |-> <<>>, started |-> 0,
     answer |-> NoNet, result |-> Return(PyNone)]

\* no call is recorded
Idle ==
    /\ op = "none"
    /\ args = <<>>
    /\ validated = Return(PyNone)
    /\ net = NoNet
    /\ outcome = Return(PyNone)
    /\ wire = <<>>
    /\ logged = <<>>

Init ==
    /\ self \in {BinanceClient(c[1], c[2]) : c \in Credentials}
    /\ clock = 1
    /\ Idle
    /\ pending = [c \in Callers |-> IdleCaller]
    /\ transmitted = {}

\* time passes
Tick ==
    /\ clock < MaxClock
    /\ clock' = clock + 1
    /\ UNCHANGED <<self, op, args, validated, net, outcome, wire, logged>>
    /\ UNCHANGED <<pending, transmitted>>

\* the call name(a) ended as r, the outside having answered x to its request
\* if it issued one; calls are made one at a time, each when no call is recorded
Called(name, a, r, x) ==
    /\ op' = name
    /\ args' = a
    /\ net' = IF r.sent = <<>> THEN NoNet ELSE x
    /\ outcome' = r.out
    /\ wire' = r.sent
    /\ logged' = r.logged
    /\ UNCHANGED <<self, clock, pending, transmitted>>

\* a call that validates nothing
CalledPlain(name, a, r, x) ==
    /\ Called(name, a, r, x)
    /\ UNCHANGED validated

\* a call of a pure function
Applied(name, a, result) ==
    /\ Called(name, a, [out |-> result, sent |-> <<>>, logged |-> <<>>], NoNet)
    /\ UNCHANGED validated

\* the caller has taken the outcome: requests and results are per call and
\* nothing of them is retained
Discard ==
    /\ op # "none"
    /\ op' = "none"
    /\ args' = <<>>
    /\ validated' = Return(PyNone)
    /\ net' = NoNet
    /\ outcome' = Return(PyNone)
    /\ wire' = <<>>
    /\ logged' = <<>>
    /\ UNCHANGED <<self, clock, pending, transmitted>>

OMPlaceOrder ==
    /\ op = "none"
    /\ \E symbol \in SymbolInputs, side \in SideInputs, order_type \in OrderTypeInputs,
          quantity \in QuantityInputs, price \in PriceInputs :
        \E v \in {validate_order_params(symbol, side, order_type, quantity, price)} :
        \E x \in IF v.kind = "return" THEN NetOutcomes ELSE {NoNet} :
        \E r \in {om_place_order(self, symbol, side, order_type, quantity, price, clock, x)} :
            /\ Called("OrderManager.place_order",
                      [symbol |-> symbol, side |-> side, order_type |-> order_type,
                       quantity |-> quantity, price |-> price], r, x)
            /\ validated' = v

OMCancelOrder ==
    /\ op = "none"
    /\ \E symbol \in {PyStr(BTCUSDT), PyInt(7)}, order_id \in OrderIds, x \in NetOutcomes :
        CalledPlain("OrderManager.cancel_order",
               [symbol |-> symbol, order_id |-> order_id],
               om_cancel_order(self, symbol, order_id, clock, x), x)

OMGetOpenOrders ==
    /\ op = "none"
    /\ \E symbol \in {PyStr(BTCUSDT), PyNone}, x \in NetOutcomes :
        CalledPlain("OrderManager.get_open_orders", [symbol |-> symbol],
               om_get_open_orders(self, symbol, clock, x), x)

ClientPlaceOrder ==
    /\ op = "none"
    /\ \E side \in {PyStr(BUY)}, order_type \in ClientOrderTypes,
       quantity \in {PyFloat(1, 0)}, price \in {PyNone, PyFloat(5, -1)},
       time_in_force \in {PyNone, PyStr(IOC)}, reduce_only \in BOOLEAN,
       x \in NetOutcomes :
        CalledPlain("BinanceClient.place_order",
               [symbol |-> PyStr(BTCUSDT), side |-> side, order_type |-> order_type,
                quantity |-> quantity, price |-> price,
                time_in_force |-> time_in_force, reduce_only |-> PyBool(reduce_only)],
               client_place_order(self, PyStr(BTCUSDT), side, order_type, quantity, price,
                                  time_in_force, PyBool(reduce_only), clock, x),
               x)

ClientGetServerTime ==
    /\ op = "none"
    /\ \E x \in NetOutcomes :
        CalledPlain("BinanceClient.get_server_time", <<>>, get_server_time(self, clock, x), x)

ClientGetExchangeInfo ==
    /\ op = "none"
    /\ \E x \in NetOutcomes :
        CalledPlain("BinanceClient.get_exchange_info", <<>>,
               get_exchange_info(self, clock, x), x)

ClientGetAccountInfo ==
    /\ op = "none"
    /\ \E x \in NetOutcomes :
        CalledPlain("BinanceClient.get_account_info", <<>>,
               get_account_info(self, clock, x), x)

ClientGetSymbolPrice ==
    /\ op = "none"
    /\ \E x \in NetOutcomes :
        CalledPlain("BinanceClient.get_symbol_price", [symbol |-> PyStr(BTCUSDT)],
               get_symbol_price(self, PyStr(BTCUSDT), clock, x), x)

ClientTestConnectivity ==
    /\ op = "none"
    /\ \E x \in NetOutcomes :
        CalledPlain("BinanceClient.test_connectivity", <<>>,
               test_connectivity(self, clock, x), x)

ValidateSymbol ==
    /\ op = "none"
    /\ \E symbol \in SymbolTexts :
        Applied("validate_symbol", [symbol |-> symbol], validate_symbol(symbol))

ValidateQuantity ==
    /\ op = "none"
    /\ \E quantity \in QuantityInputs :
        Applied("validate_quantity", [quantity |-> quantity], validate_quantity(quantity))

ValidatePrice ==
    /\ op = "none"
    /\ \E price \in PriceInputs, order_type \in ClientOrderTypes :
        Applied("validate_price", [price |-> price, order_type |-> order_type],
                validate_price(price, order_type))

Next ==
    \/ Tick
    \/ OMPlaceOrder
    \/ OMCancelOrder
    \/ OMGetOpenOrders
    \/ ClientPlaceOrder
    \/ ClientGetServerTime
    \/ ClientGetExchangeInfo
    \/ ClientGetAccountInfo
    \/ ClientGetSymbolPrice
    \/ ClientTestConnectivity
    \/ ValidateSymbol
    \/ ValidateQuantity
    \/ ValidatePrice
    \/ Discard

Spec == Init /\ [][Next]_vars

(***************************************************************************)
(* Several callers in signed operations of the one client at a time.  A    *)
(* call goes through the statements of the operation and of _make_request  *)
(* one at a time, and the callers' statements interleave.  pending[c] is   *)
(* the position of caller c and the local variables it still uses there;   *)
(* transmitted is the set of requests handed to the session so far, each   *)
(* with the call it came from and the clock when that call began.          *)
(***************************************************************************)
\* signed operations with the parameters each one builds: get_account_info,
\* which has none, and place_order of a MARKET order
SignedCalls ==
    {[name |-> "get_account_info", method |-> "GET",
      endpoint |-> <<"/fapi/v2/account">>, params |-> <<>>],
     [name |-> "place_order", method |-> "POST", endpoint |-> <<"/fapi/v1/order">>,
      params |-> OrderParams(PyStr(BTCUSDT), PyStr(BUY), PyStr(MARKET), PyFloat(1, 0),
                             PyNone, PyNone, PyBool(FALSE))]}

\* what the outside answers a caller's request
ConcAnswers ==
    {NetResponse(200, JObject(<<>>)), NetError("ReadTimeout", <<"transport failure">>)}

\* OwnParams reading the dict of whichever call is in progress
OwnParams_Shared(p, c) == p[CHOOSE d \in Callers : p[d].pc # "idle"].params

\* params of _make_request: a local variable, the dict the caller's own
\* operation built for this call
OwnParams(p, c) == p[c].params

\* the requests sent so far and the calls on their way to sending one
Begun == Cardinality(transmitted) + Cardinality({d \in Callers : pending[d].pc \in {"stamp", "sign", "send"}})

\* caller c enters a signed operation, which builds its parameters and calls
\* _make_request
ConcBegin(c) ==
    /\ pending[c].pc = "idle"
    /\ Begun < MaxCalls
    /\ \E call \in SignedCalls :
          pending' = [pending EXCEPT ![c] = [pc |-> "stamp", call |-> call,
                                             params |-> call.params,
                                             started |-> clock,
                                             answer |-> NoNet,
                                             result |-> Return(PyNone)]]
    /\ UNCHANGED <<self, clock, op, args, validated, net, outcome, wire, logged, transmitted>>

\* params['timestamp'] = self._get_timestamp()
ConcStamp(c) ==
    /\ pending[c].pc = "stamp"
    /\ pending' = [pending EXCEPT ![c].pc = "sign",
                                  ![c].params = DictSet(OwnParams(pending, c), "timestamp",
                                                        _get_timestamp(clock))]
    /\ UNCHANGED <<self, clock, op, args, validated, net, outcome, wire, logged, transmitted>>

\* params['signature'] = self._generate_signature(params)
ConcSign(c) ==
    /\ pending[c].pc = "sign"
    /\ pending' = [pending EXCEPT ![c].pc = "send",
                                  ![c].params =
                                      DictSet(OwnParams(pending, c), "signature",
                                              _generate_signature(self.api_secret,
                                                                  OwnParams(pending, c)))]
    /\ UNCHANGED <<self, clock, op, args, validated, net, outcome, wire, logged, transmitted>>

\* the session call: the request goes out and the caller blocks
ConcSend(c) ==
    /\ pending[c].pc = "send"
    /\ \E d \in {Dispatch(self, pending[c].call.method, pending[c].call.endpoint,
                           OwnParams(pending, c), TRUE, NoNet)} :
          transmitted' = transmitted \cup {[call |-> pending[c].call,
                                             started |-> pending[c].started,
                                             request |-> d.sent[1]]}
    /\ pending' = [pending EXCEPT ![c] = [IdleCaller EXCEPT !.pc = "wait"]]
    /\ UNCHANGED <<self, clock, op, args, validated, net, outcome, wire, logged>>

\* the session call ends and _make_request returns the body or raises
ConcReceive(c) ==
    /\ pending[c].pc = "wait"
    /\ \E x \in ConcAnswers :
          pending' = [pending EXCEPT ![c].pc = "done", ![c].answer = x,
                                     ![c].result = HandleExchange(x)]
    /\ UNCHANGED <<self, clock, op, args, validated, net, outcome, wire, logged, transmitted>>

\* the caller has taken the outcome of its call
ConcReturn(c) ==
    /\ pending[c].pc = "done"
    /\ pending' = [pending EXCEPT ![c] = IdleCaller]
    /\ UNCHANGED <<self, clock, op, args, validated, net, outcome, wire, logged, transmitted>>

ConcNext ==
    \/ Tick
    \/ \E c \in Callers : ConcBegin(c)
    \/ \E c \in Callers : ConcStamp(c)
    \/ \E c \in Callers : ConcSign(c)
    \/ \E c \in Callers : ConcSend(c)
    \/ \E c \in Callers : ConcReceive(c)
    \/ \E c \in Callers : ConcReturn(c)

ConcSpec == Init /\ [][ConcNext]_vars


(***************************************************************************)
(* The claims.                                                             *)
(***************************************************************************)
OrderManagerOps ==
    {"OrderManager.place_order", "OrderManager.cancel_order",
     "OrderManager.get_open_orders"}

\* the operations of the transport client that raise what _make_request raises
TransportOps ==
    {"BinanceClient.place_order", "BinanceClient.get_server_time",
     "BinanceClient.get_exchange_info", "BinanceClient.get_account_info",
     "BinanceClient.get_symbol_price"}

\* the request of the last call did not end in a parsed body with status 200
RequestFailed ==
    /\ wire # <<>>
    /\ \/ net.net = "exception"
       \/ net.net = "response" /\ (~net.parses \/ net.status # 200)

\* C1: no exception escapes the Order Manager: place_order, cancel_order and
\* get_open_orders return a result record for every input and every outcome
\* of the transport client.
C1_NoExceptionEscapes ==
    op \in OrderManagerOps => outcome.kind = "return"

\* C2: whenever validation of the raw fields fails in OrderManager.place_order
\* the result is {success: false, error_type: VALIDATION_ERROR} and no HTTP
\* request has been issued.
C2_ValidationFailureResult ==
    (op = "OrderManager.place_order" /\ validated.kind = "raise") =>
        /\ outcome.kind = "return"
        /\ outcome.value.success = FALSE
        /\ outcome.value.error_type = "VALIDATION_ERROR"
        /\ wire = <<>>

\* C3: for every signed request the parameters transmitted are exactly the
\* sequence the signature was computed over, ending with timestamp, followed
\* by one signature entry; the signature covers every transmitted parameter
\* except itself.
C3_SignatureCoversWire ==
    \A i \in DOMAIN wire :
        wire[i].signed =>
            LET p == wire[i].params
                n == Len(p)
            IN /\ n >= 2
               /\ p[n][1] = "signature"
               /\ p[n - 1][1] = "timestamp"
               /\ \A j \in 1..(n - 1) : p[j][1] # "signature"
               /\ \A j \in 1..(n - 2) : p[j][1] # "timestamp"
               /\ p[n][2].key = self.api_secret
               /\ p[n][2].msg =
                     [j \in 1..(n - 1) |-> <<p[j][1], "=">> \o QuotePlus(Str(p[j][2]))]

\* C3 witness: a signed DELETE is on the wire with its two parameters, the
\* timestamp and the signature.
C3_Witness ==
    /\ wire # <<>>
    /\ wire[1].signed
    /\ wire[1].method = "DELETE"
    /\ DictKeys(wire[1].params) = <<"symbol", "orderId", "timestamp", "signature">>

\* the parameter map the claim C4 states for the arguments a
C4_Expected(a) ==
    << <<"symbol", a.symbol>>, <<"side", a.side>>, <<"type", a.order_type>>,
       <<"quantity", a.quantity>> >>
    \o (IF a.order_type = PyStr(LIMIT)
        THEN << <<"price", a.price>>,
                <<"timeInForce", IF a.time_in_force = PyNone THEN PyStr(GTC)
                                 ELSE a.time_in_force>> >>
        ELSE <<>>)
    \o (IF a.reduce_only = PyBool(TRUE)
        THEN << <<"reduceOnly", PyStr(<<"t", "r", "u", "e">>)>> >>
        ELSE <<>>)

\* C4: the transport client's place_order builds its parameters in the order
\* symbol, side, type, quantity, then price and timeInForce iff the order type
\* is LIMIT, then reduceOnly = "true" iff reduce_only is true; a MARKET order
\* sends no price and no timeInForce.
C4_OrderParameterMap ==
    (op = "BinanceClient.place_order" /\ wire # <<>>) =>
        LET p == wire[1].params
        IN /\ SubSeq(p, 1, Len(p) - 2) = C4_Expected(args)
           /\ args.order_type = PyStr(MARKET) =>
                 ~DictHas(p, "price") /\ ~DictHas(p, "timeInForce")

\* C4 witness: a LIMIT order with reduce_only true has been sent.
C4_Witness ==
    /\ op = "BinanceClient.place_order"
    /\ wire # <<>>
    /\ args.order_type = PyStr(LIMIT)
    /\ args.reduce_only = PyBool(TRUE)
    /\ Len(wire[1].params) = 9

\* C5: whenever the transport client raises an ApiError during
\* OrderManager.place_order the result is {success: false, error_type:
\* API_ERROR} with the ApiError's error_code and message; a timeout gives
\* error_code TIMEOUT and a 400 with {code, msg} gives that code and msg.
C5_ApiErrorResult ==
    (op = "OrderManager.place_order" /\ wire # <<>>) =>
        /\ (net.net = "exception" /\ net.cls = "ReadTimeout") =>
              /\ outcome = Return([success |-> FALSE,
                                   error |-> PyStr(<<"Request timed out">>),
                                   error_code |-> PyStr(<<"TIMEOUT">>),
                                   error_type |-> "API_ERROR"])
        /\ (net.net = "response" /\ net.parses /\ net.status = 400
               /\ net.body.jt = "dict" /\ DictHas(net.body.val, "code")
               /\ DictHas(net.body.val, "msg")) =>
              /\ outcome = Return([success |-> FALSE,
                                   error |-> DictGet(net.body.val, "msg", PyNone),
                                   error_code |-> DictGet(net.body.val, "code", PyNone),
                                   error_type |-> "API_ERROR"])
        /\ (HandleExchange(net).kind = "raise"
               /\ HandleExchange(net).exc.cls = "BinanceAPIError") =>
              /\ outcome = Return([success |-> FALSE,
                                   error |-> HandleExchange(net).exc.message,
                                   error_code |-> HandleExchange(net).exc.error_code,
                                   error_type |-> "API_ERROR"])

\* C5 witness: place_order has met HTTP 400 with code -1111 and returned it.
C5_Witness ==
    /\ op = "OrderManager.place_order"
    /\ net.net = "response" /\ net.status = 400 /\ net.parses
    /\ net.body.jt = "dict"
    /\ outcome.kind = "return"
    /\ outcome.value.success = FALSE
    /\ outcome.value.error_type = "API_ERROR"
    /\ outcome.value.error_code = PyInt(-1111)

\* C6: whenever the order placement returns a parsed body with HTTP 200,
\* whatever its shape, OrderManager.place_order returns success true with
\* raw_response that body unmodified.
C6_SuccessKeepsRawResponse ==
    (op = "OrderManager.place_order" /\ wire # <<>>
        /\ net.net = "response" /\ net.parses /\ net.status = 200) =>
        /\ outcome.kind = "return"
        /\ outcome.value.success = TRUE
        /\ outcome.value.raw_response = net.body

\* C7: every failed request execution in the transport client ends in an
\* ApiError carrying status_code, error_code and message, never in another
\* error kind.
C7_FailuresAreApiErrors ==
    (op \in TransportOps /\ RequestFailed) =>
        /\ outcome.kind = "raise"
        /\ outcome.exc.cls = "BinanceAPIError"
        /\ {"status_code", "error_code", "message"} \subseteq DOMAIN outcome.exc

\* C8: every record validate_order_params returns has a price iff its order
\* type is LIMIT, and validate_price returns no price for every order type
\* other than LIMIT whatever the price argument is.
C8_PriceIffLimit ==
    /\ (op = "OrderManager.place_order" /\ validated.kind = "return") =>
          (validated.value.price # PyNone <=> validated.value.order_type = PyStr(LIMIT))
    /\ (op = "validate_price" /\ args.order_type # PyStr(LIMIT)) =>
          outcome = Return(PyNone)

\* C8 witness: a MARKET order given a price has been validated.
C8_Witness ==
    /\ op = "OrderManager.place_order"
    /\ validated.kind = "return"
    /\ validated.value.order_type = PyStr(MARKET)
    /\ args.price = PyFloat(5, -1)

\* the quantities of the inputs that are numbers greater than zero, with the
\* float each one is
PositiveQuantity(q) ==
    \/ q.t \in {"int", "float"} /\ q.s = <<>> /\ q.n > 0
    \/ q = PyInf
    \/ q = PyStr(<<" ", "2", ".", "5", "0">>)
AsFloat(q) ==
    IF q = PyStr(<<" ", "2", ".", "5", "0">>) THEN PyFloat(25, -1)
    ELSE IF q = PyInf THEN PyInf
    ELSE PyFloat(q.n, q.e)

\* C9: for every quantity that is non-numeric (text that is no number, NaN) or
\* is less than or equal to zero validate_quantity fails with ValidationError;
\* for every quantity greater than zero it returns it as a float.
C9_QuantityValidation ==
    op = "validate_quantity" =>
        IF PositiveQuantity(args.quantity)
        THEN outcome = Return(AsFloat(args.quantity))
        ELSE outcome.kind = "raise" /\ outcome.exc.cls = "ValidationError"

\* C10: no operation retries: each call of a transport client operation and
\* of an Order Manager operation issues at most one HTTP request, whether
\* that request succeeds or fails.
C10_AtMostOneRequest ==
    /\ Len(wire) <= 1
    /\ Len(wire) = 1 => net # NoNet

\* C10 witness: a call whose only request has failed.
C10_Witness ==
    /\ op \in OrderManagerOps \cup TransportOps
    /\ RequestFailed
    /\ Len(wire) = 1

\* the timestamp a transmitted request carries
SentTimestamp(t) == DictGet(t.request.params, "timestamp", PyNone)
\* the signature a transmitted request carries
SentSignature(t) == DictGet(t.request.params, "signature", PyNone)

\* C11: with several callers in signed operations of one client at a time,
\* each transmitted request carries only the parameters of its own call, a
\* timestamp read during that call and a signature over exactly those; each
\* call's outcome is that of the answer to its own request; and the state the
\* calls share, the credentials and the session headers, stays as
\* construction left it.
C11_CallsIndependent ==
    /\ self \in {BinanceClient(cr[1], cr[2]) : cr \in Credentials}
    /\ \A t \in transmitted :
          LET p == t.request.params
              n == Len(p)
          IN /\ n = Len(t.call.params) + 2
             /\ SubSeq(p, 1, n - 2) = t.call.params
             /\ p[n - 1][1] = "timestamp"
             /\ p[n - 1][2].t = "int"
             /\ p[n - 1][2].n \in t.started..clock
             /\ p[n] = <<"signature",
                         HmacSha256Hex(self.api_secret, urlencode(SubSeq(p, 1, n - 1)))>>
             /\ t.request.method = t.call.method
             /\ t.request.url = BASE_URL \o t.call.endpoint
             /\ t.request.headers = self.headers
    /\ \A c \in Callers :
          /\ pending[c].pc \in {"stamp", "sign", "send"} =>
                /\ Len(pending[c].params) >= Len(pending[c].call.params)
                /\ SubSeq(pending[c].params, 1, Len(pending[c].call.params))
                      = pending[c].call.params
          /\ pending[c].pc = "done" =>
                pending[c].result = HandleExchange(pending[c].answer)

\* C11 witness: two callers are blocked in their session calls at the same
\* time, an order and an account query both on the wire.
C11_Witness ==
    /\ \E c, d \in Callers : c # d /\ pending[c].pc = "wait" /\ pending[d].pc = "wait"
    /\ \E t, u \in transmitted : t.call.name = "place_order"
                                  /\ u.call.name = "get_account_info"

\* C13: every signed request's timestamp is the clock read during its own
\* call and its signature is computed over that call's parameters and that
\* timestamp; a call begun after the clock has passed an earlier request's
\* timestamp transmits neither that timestamp nor that signature.
C13_FreshTimestampAndSignature ==
    /\ \A t \in transmitted :
          /\ SentTimestamp(t).t = "int"
          /\ t.started <= SentTimestamp(t).n
          /\ SentTimestamp(t).n <= clock
          /\ SentSignature(t).key = self.api_secret
          /\ SentSignature(t).msg =
                urlencode(t.call.params \o << <<"timestamp", SentTimestamp(t)>> >>)
    /\ \A t, u \in transmitted :
          SentTimestamp(t).n < u.started =>
              /\ SentTimestamp(u) # SentTimestamp(t)
              /\ SentSignature(u) # SentSignature(t)
    /\ \A c \in Callers :
          pending[c].pc \in {"sign", "send"} =>
              DictGet(pending[c].params, "timestamp", PyNone).n
                  \in pending[c].started..clock

\* C13 witness: the same operation has been sent twice, the second call begun
\* after the clock passed the first request's timestamp.
C13_Witness ==
    \E t, u \in transmitted :
        /\ t.call = u.call
        /\ SentTimestamp(t).n < u.started
        /\ SentTimestamp(u).n = u.started

\* C12: for every input whose trimmed upper-cased form ends in USDT,
\* validate_symbol returns that form, and validate_symbol applied to its own
\* result returns the same value.
C12_SymbolIdempotent ==
    (op = "validate_symbol" /\ args.symbol.t = "str"
        /\ EndsWith(Upper(Strip(args.symbol.s)), USDT)) =>
        /\ outcome = Return(PyStr(Upper(Strip(args.symbol.s))))
        /\ validate_symbol(outcome.value) = outcome

\* C12 witness: validate_symbol has returned a symbol that differs from its
\* input by case and by surrounding whitespace.
C12_Witness ==
    /\ op = "validate_symbol"
    /\ outcome.kind = "return"
    /\ outcome.value = PyStr(BTCUSDT)
    /\ Len(args.symbol.s) > Len(BTCUSDT)
    /\ args.symbol.s # Upper(args.symbol.s)

\* C14: validate_order_params fails on the first violated field in the order
\* symbol, side, order_type, quantity, price: the error raised is the one of
\* the earliest invalid field, whatever the later fields are.
C14_FailFast ==
    op = "OrderManager.place_order" =>
        LET vs == validate_symbol(args.symbol)
            vd == validate_side(args.side)
            vt == validate_order_type(args.order_type)
            vq == validate_quantity(args.quantity)
        IN IF vs.kind = "raise" THEN validated = vs
           ELSE IF vd.kind = "raise" THEN validated = vd
           ELSE IF vt.kind = "raise" THEN validated = vt
           ELSE IF vq.kind = "raise" THEN validated = vq
           ELSE IF validate_price(args.price, vt.value).kind = "raise"
           THEN validated = validate_price(args.price, vt.value)
           ELSE validated.kind = "return"

\* C14 witness: symbol, side and quantity are all invalid and the error is
\* the symbol's.
C14_Witness ==
    /\ op = "OrderManager.place_order"
    /\ validate_symbol(args.symbol).kind = "raise"
    /\ validate_side(args.side).kind = "raise"
    /\ validate_quantity(args.quantity).kind = "raise"
    /\ validated = validate_symbol(args.symbol)
    /\ validated # validate_side(args.side)
    /\ validated # validate_quantity(args.quantity)

\* C15: for every response whose status is not 200 and whose body parses as
\* JSON the transport client raises an ApiError with the HTTP status, the
\* body's code or "UNKNOWN" when absent, and the body's msg or "Unknown
\* error" when absent; a response with status 200 and a parseable body is
\* returned verbatim.
C15_NonOkClassification ==
    (op \in TransportOps /\ wire # <<>> /\ net.net = "response" /\ net.parses) =>
        IF net.status # 200
        THEN outcome =
                Raise(BinanceAPIError(net.status,
                                      DictGet(net.body.val, "code", PyStr(<<"UNKNOWN">>)),
                                      DictGet(net.body.val, "msg", PyStr(<<"Unknown error">>))))
        ELSE outcome = Return(net.body)

\* the fixed code of a network-level failure of class cls
C16_Code(cls) ==
    CASE cls \in {"ReadTimeout", "ConnectTimeout"} -> PyStr(<<"TIMEOUT">>)
      [] cls = "ConnectionError" -> PyStr(<<"CONNECTION_ERROR">>)
      [] OTHER -> PyStr(<<"REQUEST_ERROR">>)

\* C16: a timeout gives ApiError code TIMEOUT, a connection failure
\* CONNECTION_ERROR, any other transport failure REQUEST_ERROR, each with
\* status_code 0; an ApiError raised for a received response keeps the
\* response's status and is never given one of these three codes.
C16_NetworkFailureCodes ==
    (op \in TransportOps /\ wire # <<>>) =>
        /\ net.net = "exception" =>
              /\ outcome.kind = "raise"
              /\ outcome.exc.cls = "BinanceAPIError"
              /\ outcome.exc.status_code = 0
              /\ outcome.exc.error_code = C16_Code(net.cls)
        /\ (net.net = "response" /\ outcome.kind = "raise"
               /\ outcome.exc.cls = "BinanceAPIError") =>
              /\ outcome.exc.status_code = net.status
              /\ outcome.exc.error_code \notin
                    {PyStr(<<"TIMEOUT">>), PyStr(<<"CONNECTION_ERROR">>),
                     PyStr(<<"REQUEST_ERROR">>)}

\* C16 witness: a connect timeout, which is both a timeout and a connection
\* error, has been reported as TIMEOUT.
C16_Witness ==
    /\ op \in TransportOps
    /\ net.net = "exception" /\ net.cls = "ConnectTimeout"
    /\ outcome.kind = "raise"
    /\ outcome.exc.error_code = PyStr(<<"TIMEOUT">>)

\* C17: a response whose body does not parse as JSON gives ApiError
\* INVALID_JSON whatever its status, with the response's status as
\* status_code, and never the UNKNOWN / "Unknown error" classification.
C17_InvalidJsonBeforeStatus ==
    (op \in TransportOps /\ wire # <<>> /\ net.net = "response" /\ ~net.parses) =>
        /\ outcome.kind = "raise"
        /\ outcome.exc.cls = "BinanceAPIError"
        /\ outcome.exc.error_code = PyStr(<<"INVALID_JSON">>)
        /\ outcome.exc.status_code = net.status
        /\ outcome.exc.error_code # PyStr(<<"UNKNOWN">>)
        /\ outcome.exc.message # PyStr(<<"Unknown error">>)

\* C17 witness: a response with status 400 and a body that is no JSON has
\* been reported as INVALID_JSON with status_code 400.
C17_Witness ==
    /\ op \in TransportOps
    /\ net.net = "response" /\ ~net.parses /\ net.status = 400
    /\ outcome.kind = "raise"
    /\ outcome.exc.error_code = PyStr(<<"INVALID_JSON">>)
    /\ outcome.exc.status_code = 400

\* C18: in the parameter set logged for a request the signature is masked
\* and every other parameter keeps its value, a request without a signature
\* is logged with no signature key, and the parameters transmitted still
\* carry the real signature.
C18_LoggedSignatureMasked ==
    /\ Len(logged) = Len(wire)
    /\ \A k \in DOMAIN wire :
          LET p == wire[k].params
              l == logged[k]
          IN /\ DictKeys(l) = DictKeys(p)
             /\ \A i \in DOMAIN p :
                   IF p[i][1] = "signature"
                   THEN /\ l[i][2] = MASK
                        /\ p[i][2] # MASK
                        /\ p[i][2] = _generate_signature(self.api_secret,
                                                         SubSeq(p, 1, i - 1))
                   ELSE l[i] = p[i]
             /\ DictHas(l, "signature") <=> wire[k].signed

\* C18 witness: a signed order has been sent with its real signature and
\* logged with the signature masked and the symbol visible.
C18_Witness ==
    /\ op = "BinanceClient.place_order"
    /\ wire # <<>> /\ logged # <<>>
    /\ DictGet(logged[1], "signature", PyNone) = MASK
    /\ DictGet(wire[1].params, "signature", PyNone) \notin {MASK, PyNone}
    /\ DictGet(logged[1], "symbol", PyNone) = PyStr(BTCUSDT)

\* C19: every order OrderManager.place_order sends carries the validated
\* (upper-cased, trimmed) symbol, side and type; a LIMIT order's timeInForce
\* is GTC, and no order carries reduceOnly.
C19_OrderManagerOrders ==
    (op = "OrderManager.place_order" /\ wire # <<>>) =>
        LET p == wire[1].params
        IN /\ DictGet(p, "symbol", PyNone) = PyStr(Upper(Strip(args.symbol.s)))
           /\ DictGet(p, "side", PyNone) = PyStr(Upper(Strip(args.side.s)))
           /\ DictGet(p, "type", PyNone) = PyStr(Upper(Strip(args.order_type.s)))
           /\ DictGet(p, "symbol", PyNone) = validated.value.symbol
           /\ DictGet(p, "side", PyNone) = validated.value.side
           /\ DictGet(p, "type", PyNone) = validated.value.order_type
           /\ IF DictGet(p, "type", PyNone) = PyStr(LIMIT)
              THEN DictGet(p, "timeInForce", PyNone) = PyStr(GTC)
              ELSE ~DictHas(p, "timeInForce")
           /\ ~DictHas(p, "reduceOnly")

\* C19 witness: a LIMIT order given as " limit" for " btcusdt " has been sent
\* with timeInForce GTC.
C19_Witness ==
    /\ op = "OrderManager.place_order"
    /\ wire # <<>>
    /\ args.order_type.s # LIMIT
    /\ args.symbol.s # BTCUSDT
    /\ DictGet(wire[1].params, "type", PyNone) = PyStr(LIMIT)
    /\ DictGet(wire[1].params, "symbol", PyNone) = PyStr(BTCUSDT)
    /\ DictGet(wire[1].params, "timeInForce", PyNone) = PyStr(GTC)

=============================================================================
